---- MODULE Spec2Model ----
(***************************************************************************)
(* Model of lib/data.js of the multi-warehouse inventory system: the JSON  *)
(* collections stock.json, transfers.json and alerts.json, the stock       *)
(* transfer workflow (performStockTransfer) and the alert system           *)
(* (categorizeStock, recommendReorder, generateAlerts, updateAlertStatus). *)
(* Requests are handled one at a time; every action is one whole handler.  *)
(***************************************************************************)
EXTENDS Integers, Sequences, FiniteSets, TLC

(* ---------- Bounds of the model ---------- *)

\* the wall clock takes the values 0..MaxClock
MaxClock == 1
\* clock ticks per calendar day (the date part of a transfer id)
TicksPerDay == 2
\* at most this many moves are written to the ledger in a run that only moves stock
MaxTransfers == 2
\* at most this many moves are written to the ledger in a run that also handles alerts
MaxMoves == 1
\* at most this many calls stop between the ledger write and the log write
MaxCrashes == 2
\* the totals passed to categorizeStock and recommendReorder are 0..MaxTotal
MaxTotal == 250
\* the reorder points passed to them are -2..MaxReorderPoint
MaxReorderPoint == 100

(* ---------- Persisted collections and bookkeeping ---------- *)

VARIABLES
  products,   \* data/products.json (read-only to this module)
  stock,      \* data/stock.json: array of stock lines
  transfers,  \* data/transfers.json: array of transfer records, newest first
  alerts,     \* data/alerts.json: array of alerts, newest first
  clock,      \* wall clock read by Date.now() / new Date()
  result,     \* outcome of the last call: what it returned or threw
  stock0,     \* history: the ledger at start
  applied,    \* history: the moves written to the ledger, newest first
  crashes,    \* history: calls that stopped between the two writes
  args,       \* the arguments of the call under test, <<>> when requests are free
  calls       \* the calls in flight: where each stands and what it has read; <<>> when
              \* calls run one at a time

vars == <<products, stock, transfers, alerts, clock, result, stock0, applied, crashes, args, calls>>

(* ---------- Values ---------- *)

\* JavaScript undefined (an absent property)
Undefined == "undefined"

\* data/warehouses.json
warehouses == << [id |-> 1, name |-> "Main"], [id |-> 2, name |-> "East"] >>

\* the workflow statuses accepted by updateAlertStatus
valid == {"NEW", "ACKNOWLEDGED", "ORDERED", "RESOLVED"}

\* new Date().toISOString().slice(0, 10): the calendar day of an instant
DateOf(t) == t \div TicksPerDay

(* ---------- Number(x) on request text ---------- *)

Digits == {"0", "1", "2", "3", "4", "5", "6", "7", "8", "9"}

DigitVal(c) ==
  CASE c = "0" -> 0 [] c = "1" -> 1 [] c = "2" -> 2 [] c = "3" -> 3
    [] c = "4" -> 4 [] c = "5" -> 5 [] c = "6" -> 6 [] c = "7" -> 7
    [] c = "8" -> 8 [] c = "9" -> 9

IsDigits(s) == Len(s) > 0 /\ \A i \in 1..Len(s) : s[i] \in Digits

RECURSIVE Decimal(_)
Decimal(s) ==
  IF s = <<>> THEN 0
  ELSE 10 * Decimal(SubSeq(s, 1, Len(s) - 1)) + DigitVal(s[Len(s)])

\* NaN: the result of Number on text that is not a number
NaN == [finite |-> FALSE, val |-> 0]

\* Number(text): "" is 0, an optionally signed decimal is its value, else NaN
Number(s) ==
  IF s = <<>> THEN [finite |-> TRUE, val |-> 0]
  ELSE IF IsDigits(s) THEN [finite |-> TRUE, val |-> Decimal(s)]
  ELSE IF Head(s) = "-" /\ IsDigits(Tail(s))
    THEN [finite |-> TRUE, val |-> 0 - Decimal(Tail(s))]
  ELSE NaN

\* Number.isFinite
IsFinite(n) == n.finite

(* ---------- Array helpers ---------- *)

\* arr.find(x => Number(x.id) === id) as an index: the first one, 0 if none
FindById(arr, id) ==
  IF \E i \in 1..Len(arr) : arr[i].id = id
    THEN CHOOSE i \in 1..Len(arr) : arr[i].id = id /\ \A j \in 1..(i - 1) : arr[j].id # id
    ELSE 0

\* the stock line of (pid, wid)
IsLine(s, pid, wid) == s.productId = pid /\ s.warehouseId = wid

\* stock.find(s => s.productId === pid && s.warehouseId === wid) as an index:
\* the first one, 0 if none
FindLine(lines, pid, wid) ==
  IF \E i \in 1..Len(lines) : IsLine(lines[i], pid, wid)
    THEN CHOOSE i \in 1..Len(lines) :
           IsLine(lines[i], pid, wid) /\ \A j \in 1..(i - 1) : ~IsLine(lines[j], pid, wid)
    ELSE 0

RECURSIVE SumQuantity(_, _)
\* stock.filter(s => s.productId === pid).reduce((sum, s) => sum + s.quantity, 0)
SumQuantity(lines, pid) ==
  IF lines = <<>> THEN 0
  ELSE (IF Head(lines).productId = pid THEN Head(lines).quantity ELSE 0)
       + SumQuantity(Tail(lines), pid)

(* ---------- Stock transfer workflow ---------- *)

\* what a call that throws leaves in result
Thrown(op, message) == [op |-> op, ok |-> FALSE, error |-> message, ret |-> <<>>]

\* what a call that returns leaves in result
Returned(op, value) == [op |-> op, ok |-> TRUE, error |-> "", ret |-> value]

\* TransferError without the check of the available quantity
TransferErrorNoStockCheck(prods, lines, pid, fromId, toId, qty) ==
  LET source == FindLine(lines, pid.val, fromId.val)
  IN
  IF ~IsFinite(pid) THEN "Invalid productId"
  ELSE IF ~IsFinite(fromId) \/ ~IsFinite(toId) THEN "Invalid warehouseId"
  ELSE IF fromId.val = toId.val THEN "Source and destination warehouses must differ"
  ELSE IF ~IsFinite(qty) \/ qty.val <= 0 THEN "Quantity must be a positive number"
  ELSE IF FindById(prods, pid.val) = 0 THEN "Product not found"
  ELSE IF FindById(warehouses, fromId.val) = 0 THEN "Source warehouse not found"
  ELSE IF FindById(warehouses, toId.val) = 0 THEN "Destination warehouse not found"
  ELSE IF source = 0 THEN "Source stock record not found"
  ELSE ""

\* TransferError that looks the product up before it compares the warehouses
TransferErrorProductFirst(prods, lines, pid, fromId, toId, qty) ==
  LET source == FindLine(lines, pid.val, fromId.val)
      sourceQty == IF source # 0 THEN lines[source].quantity ELSE 0
  IN
  IF ~IsFinite(pid) THEN "Invalid productId"
  ELSE IF ~IsFinite(fromId) \/ ~IsFinite(toId) THEN "Invalid warehouseId"
  ELSE IF FindById(prods, pid.val) = 0 THEN "Product not found"
  ELSE IF fromId.val = toId.val THEN "Source and destination warehouses must differ"
  ELSE IF ~IsFinite(qty) \/ qty.val <= 0 THEN "Quantity must be a positive number"
  ELSE IF FindById(warehouses, fromId.val) = 0 THEN "Source warehouse not found"
  ELSE IF FindById(warehouses, toId.val) = 0 THEN "Destination warehouse not found"
  ELSE IF sourceQty < qty.val THEN "Insufficient stock in source warehouse"
  ELSE IF source = 0 THEN "Source stock record not found"
  ELSE ""

\* TransferError with `qty < 0` for `qty <= 0`
TransferErrorZeroAllowed(prods, lines, pid, fromId, toId, qty) ==
  LET source == FindLine(lines, pid.val, fromId.val)
      sourceQty == IF source # 0 THEN lines[source].quantity ELSE 0
  IN
  IF ~IsFinite(pid) THEN "Invalid productId"
  ELSE IF ~IsFinite(fromId) \/ ~IsFinite(toId) THEN "Invalid warehouseId"
  ELSE IF fromId.val = toId.val THEN "Source and destination warehouses must differ"
  ELSE IF ~IsFinite(qty) \/ qty.val < 0 THEN "Quantity must be a positive number"
  ELSE IF FindById(prods, pid.val) = 0 THEN "Product not found"
  ELSE IF FindById(warehouses, fromId.val) = 0 THEN "Source warehouse not found"
  ELSE IF FindById(warehouses, toId.val) = 0 THEN "Destination warehouse not found"
  ELSE IF sourceQty < qty.val THEN "Insufficient stock in source warehouse"
  ELSE IF source = 0 THEN "Source stock record not found"
  ELSE ""

\* the first failing check of performStockTransfer, "" when all pass
TransferError(prods, lines, pid, fromId, toId, qty) ==
  LET source == FindLine(lines, pid.val, fromId.val)
      sourceQty == IF source # 0 THEN lines[source].quantity ELSE 0
  IN
  IF ~IsFinite(pid) THEN "Invalid productId"
  ELSE IF ~IsFinite(fromId) \/ ~IsFinite(toId) THEN "Invalid warehouseId"
  ELSE IF fromId.val = toId.val THEN "Source and destination warehouses must differ"
  ELSE IF ~IsFinite(qty) \/ qty.val <= 0 THEN "Quantity must be a positive number"
  ELSE IF FindById(prods, pid.val) = 0 THEN "Product not found"
  ELSE IF FindById(warehouses, fromId.val) = 0 THEN "Source warehouse not found"
  ELSE IF FindById(warehouses, toId.val) = 0 THEN "Destination warehouse not found"
  ELSE IF sourceQty < qty.val THEN "Insufficient stock in source warehouse"
  ELSE IF source = 0 THEN "Source stock record not found"
  ELSE ""

\* MovedStock that credits the destination and leaves the source as it was
MovedStockNoDebit(lines, pid, fromId, toId, qty, now) ==
  LET dest == FindLine(lines, pid, toId) IN
  IF dest # 0
    THEN [lines EXCEPT ![dest].quantity = lines[dest].quantity + qty]
    ELSE Append(lines, [id |-> now, productId |-> pid, warehouseId |-> toId, quantity |-> qty])

\* MovedStock that drops the source line once it holds nothing
MovedStockDropsEmpty(lines, pid, fromId, toId, qty, now) ==
  LET source == FindLine(lines, pid, fromId)
      dest == FindLine(lines, pid, toId)
      debited == [lines EXCEPT ![source].quantity = lines[source].quantity - qty]
      credited ==
        IF dest # 0
          THEN [debited EXCEPT ![dest].quantity = debited[dest].quantity + qty]
          ELSE Append(debited, [id |-> now, productId |-> pid, warehouseId |-> toId, quantity |-> qty])
  IN
  IF credited[source].quantity = 0
    THEN SubSeq(credited, 1, source - 1) \o SubSeq(credited, source + 1, Len(credited))
    ELSE credited

\* MovedStock that pushes a destination line without looking for one
MovedStockAlwaysAppend(lines, pid, fromId, toId, qty, now) ==
  LET source == FindLine(lines, pid, fromId)
      debited == [lines EXCEPT ![source].quantity = lines[source].quantity - qty]
  IN
  Append(debited, [id |-> now, productId |-> pid, warehouseId |-> toId, quantity |-> qty])

\* MovedStock with `dest.quantity = qty` for `dest.quantity + qty`
MovedStockOverwrite(lines, pid, fromId, toId, qty, now) ==
  LET source == FindLine(lines, pid, fromId)
      dest == FindLine(lines, pid, toId)
      debited == [lines EXCEPT ![source].quantity = lines[source].quantity - qty]
  IN
  IF dest # 0
    THEN [debited EXCEPT ![dest].quantity = qty]
    ELSE Append(debited, [id |-> now, productId |-> pid, warehouseId |-> toId, quantity |-> qty])

\* the ledger after the move: source decremented, destination incremented or created
\* MovedStock that finds the source line by warehouse alone
MovedStockSourceByWarehouse(lines, pid, fromId, toId, qty, now) ==
  LET source == CHOOSE i \in 1..Len(lines) :
                  /\ lines[i].warehouseId = fromId
                  /\ \A j \in 1..(i - 1) : lines[j].warehouseId # fromId
      dest == FindLine(lines, pid, toId)
      debited == [lines EXCEPT ![source].quantity = lines[source].quantity - qty]
  IN
  IF dest # 0
    THEN [debited EXCEPT ![dest].quantity = debited[dest].quantity + qty]
    ELSE Append(debited, [id |-> now, productId |-> pid, warehouseId |-> toId, quantity |-> qty])

MovedStock(lines, pid, fromId, toId, qty, now) ==
  LET source == FindLine(lines, pid, fromId)
      dest == FindLine(lines, pid, toId)
      debited == [lines EXCEPT ![source].quantity = lines[source].quantity - qty]
  IN
  IF dest # 0
    THEN [debited EXCEPT ![dest].quantity = debited[dest].quantity + qty]
    ELSE Append(debited, [id |-> now, productId |-> pid, warehouseId |-> toId, quantity |-> qty])

\* TransferRecord that numbers every record 1
TransferRecordFirstSeq(log, pid, fromId, toId, qty, now) ==
  [ id |-> <<DateOf(now), 1>>,
    productId |-> pid,
    fromWarehouseId |-> fromId,
    toWarehouseId |-> toId,
    quantity |-> qty,
    createdAt |-> now,
    status |-> "COMPLETED" ]

\* TransferRecord with the two warehouses exchanged
TransferRecordSwapped(log, pid, fromId, toId, qty, now) ==
  [ id |-> <<DateOf(now), Len(log) + 1>>,
    productId |-> pid,
    fromWarehouseId |-> toId,
    toWarehouseId |-> fromId,
    quantity |-> qty,
    createdAt |-> now,
    status |-> "COMPLETED" ]

\* the record performStockTransfer builds for the log
TransferRecord(log, pid, fromId, toId, qty, now) ==
  [ id |-> <<DateOf(now), Len(log) + 1>>,
    productId |-> pid,
    fromWarehouseId |-> fromId,
    toWarehouseId |-> toId,
    quantity |-> qty,
    createdAt |-> now,
    status |-> "COMPLETED" ]

\* the move a call writes to the ledger
Move(pid, fromId, toId, qty) ==
  [productId |-> pid, fromWarehouseId |-> fromId, toWarehouseId |-> toId, quantity |-> qty]

\* performStockTransfer that saves the transfer record before the ledger: the
\* call that stops between the two writes has logged a move it never applied
performStockTransferLogFirst(productId, fromWarehouseId, toWarehouseId, quantity, logSaved) ==
  LET pid == Number(productId)
      fromId == Number(fromWarehouseId)
      toId == Number(toWarehouseId)
      qty == Number(quantity)
      now == clock
      error == TransferError(products, stock, pid, fromId, toId, qty)
  IN
  /\ IF error # ""
       THEN /\ logSaved
            /\ result' = Thrown("performStockTransfer", error)
            /\ UNCHANGED <<stock, transfers, applied, crashes>>
       ELSE LET transferRecord == TransferRecord(transfers, pid.val, fromId.val, toId.val, qty.val, now)
            IN
            /\ transfers' = <<transferRecord>> \o transfers
            /\ IF logSaved
                 THEN /\ stock' = MovedStock(stock, pid.val, fromId.val, toId.val, qty.val, now)
                      /\ applied' = <<Move(pid.val, fromId.val, toId.val, qty.val)>> \o applied
                      /\ result' = Returned("performStockTransfer", <<transferRecord>>)
                      /\ UNCHANGED crashes
                 ELSE /\ result' = Thrown("performStockTransfer", "saveStock did not complete")
                      /\ crashes' = crashes + 1
                      /\ UNCHANGED <<stock, applied>>
  /\ UNCHANGED <<products, alerts, clock, stock0, args, calls>>

\* performStockTransfer({productId, fromWarehouseId, toWarehouseId, quantity}):
\* one call, run to its return or to its throw.  logSaved = FALSE is the call
\* that stops after saveStock and before saveTransfers has taken effect (the
\* process dies, or the write of transfers.json fails).
performStockTransfer(productId, fromWarehouseId, toWarehouseId, quantity, logSaved) ==
  LET pid == Number(productId)
      fromId == Number(fromWarehouseId)
      toId == Number(toWarehouseId)
      qty == Number(quantity)
      now == clock
      error == TransferError(products, stock, pid, fromId, toId, qty)
  IN
  /\ IF error # ""
       THEN /\ logSaved
            /\ result' = Thrown("performStockTransfer", error)
            /\ UNCHANGED <<stock, transfers, applied, crashes>>
       ELSE LET transferRecord == TransferRecord(transfers, pid.val, fromId.val, toId.val, qty.val, now)
            IN
            /\ stock' = MovedStock(stock, pid.val, fromId.val, toId.val, qty.val, now)
            /\ applied' = <<Move(pid.val, fromId.val, toId.val, qty.val)>> \o applied
            /\ IF logSaved
                 THEN /\ transfers' = <<transferRecord>> \o transfers
                      /\ result' = Returned("performStockTransfer", <<transferRecord>>)
                      /\ UNCHANGED crashes
                 ELSE /\ result' = Thrown("performStockTransfer", "saveTransfers did not complete")
                      /\ crashes' = crashes + 1
                      /\ UNCHANGED transfers
  /\ UNCHANGED <<products, alerts, clock, stock0, args, calls>>

(* ---------- Alerts system ---------- *)

\* categorizeStock with `total <= 0.5 * rp` for `total < 0.5 * rp`
categorizeStockInclusive(total, reorderPoint) ==
  LET rp == reorderPoint IN
  IF rp <= 0 THEN "adequate"
  ELSE IF 2 * total <= rp THEN "critical"
  ELSE IF total < rp THEN "low"
  ELSE IF total < 2 * rp THEN "adequate"
  ELSE "overstocked"

\* categorizeStock with the results of the last two tests exchanged
categorizeStockSwapped(total, reorderPoint) ==
  LET rp == reorderPoint IN
  IF rp <= 0 THEN "adequate"
  ELSE IF 2 * total < rp THEN "critical"
  ELSE IF total < rp THEN "low"
  ELSE IF total < 2 * rp THEN "overstocked"
  ELSE "adequate"

\* categorizeStock(total, reorderPoint); total < 0.5 * rp is 2 * total < rp
categorizeStock(total, reorderPoint) ==
  LET rp == reorderPoint IN
  IF rp <= 0 THEN "adequate"
  ELSE IF 2 * total < rp THEN "critical"
  ELSE IF total < rp THEN "low"
  ELSE IF total < 2 * rp THEN "adequate"
  ELSE "overstocked"

\* Math.max(a, b)
Max(a, b) == IF a >= b THEN a ELSE b

\* Ceil15 that rounds down: Math.floor(1.5 * rp)
Ceil15Floor(rp) == (3 * rp) \div 2

\* Math.ceil(1.5 * rp) for an integer rp
Ceil15(rp) == (3 * rp + 1) \div 2

\* recommendReorder(total, reorderPoint): {recommendedQty, note}
recommendReorder(total, reorderPoint) ==
  LET rp == reorderPoint
      category == categorizeStock(total, rp)
  IN
  IF rp <= 0 THEN [recommendedQty |-> 0, note |-> <<"No reorder point set", 0>>]
  ELSE IF category = "critical"
    THEN [recommendedQty |-> Max(0, Ceil15(rp) - total), note |-> <<"Raise to ~1.5x RP", Ceil15(rp)>>]
  ELSE IF category = "low"
    THEN [recommendedQty |-> Max(0, rp - total), note |-> <<"Raise to RP", rp>>]
  ELSE [recommendedQty |-> 0, note |-> <<"Adequate or overstocked - no action", 0>>]

\* An object of the alerts array is named by its distance from the end of the
\* array, which unshift does not change.
AlertAt(arr, ref) == Len(arr) - ref

\* AlertByProduct keyed by a property the alerts do not have: every lookup misses
AlertByProductMissing(existingAlerts, pids) ==
  [pid \in pids |-> -1]

\* new Map(existingAlerts.map(a => [a.productId, a])): for each product id the
\* LAST alert of the array with that id, -1 for none
AlertByProduct(existingAlerts, pids) ==
  [pid \in pids |->
     IF \E i \in 1..Len(existingAlerts) : existingAlerts[i].productId = pid
       THEN Len(existingAlerts)
            - (CHOOSE i \in 1..Len(existingAlerts) :
                 /\ existingAlerts[i].productId = pid
                 /\ \A j \in (i + 1)..Len(existingAlerts) : existingAlerts[j].productId # pid)
       ELSE -1]

\* the alert generateAlerts creates for product p
NewAlert(p, total, category, rec, now) ==
  [ id |-> <<now, p.id>>,
    productId |-> p.id,
    sku |-> p.sku,
    reorderPoint |-> p.reorderPoint,
    totalStock |-> total,
    category |-> category,
    recommendedQty |-> rec.recommendedQty,
    note |-> rec.note,
    workflowStatus |-> "NEW",
    createdAt |-> now,
    updatedAt |-> now,
    comment |-> Undefined ]

\* ReconcileProduct without the test `existing.workflowStatus !== 'RESOLVED'`
\* before the refresh
ReconcileProductRefreshResolved(p, lines, updated, alertByProduct, now) ==
  LET pid == p.id
      total == SumQuantity(lines, pid)
      category == categorizeStock(total, p.reorderPoint)
      rec == recommendReorder(total, p.reorderPoint)
      existing == alertByProduct[pid]
      i == AlertAt(updated, existing)
      same == [updated |-> updated, alertByProduct |-> alertByProduct]
  IN
  IF category = "critical" \/ category = "low"
    THEN IF existing # -1
           THEN [same EXCEPT !.updated =
                   [updated EXCEPT ![i].totalStock = total,
                                   ![i].category = category,
                                   ![i].recommendedQty = rec.recommendedQty,
                                   ![i].note = rec.note,
                                   ![i].updatedAt = now]]
           ELSE [updated |-> <<NewAlert(p, total, category, rec, now)>> \o updated,
                 alertByProduct |-> [alertByProduct EXCEPT ![pid] = Len(updated)]]
    ELSE IF existing # -1 /\ updated[i].workflowStatus # "RESOLVED"
           THEN [same EXCEPT !.updated =
                   [updated EXCEPT ![i].workflowStatus = "RESOLVED", ![i].updatedAt = now]]
           ELSE same

\* ReconcileProduct that refreshes the alert it auto-resolves
ReconcileProductRefreshOnResolve(p, lines, updated, alertByProduct, now) ==
  LET pid == p.id
      total == SumQuantity(lines, pid)
      category == categorizeStock(total, p.reorderPoint)
      rec == recommendReorder(total, p.reorderPoint)
      existing == alertByProduct[pid]
      i == AlertAt(updated, existing)
      same == [updated |-> updated, alertByProduct |-> alertByProduct]
  IN
  IF category = "critical" \/ category = "low"
    THEN IF existing # -1
           THEN IF updated[i].workflowStatus # "RESOLVED"
                  THEN [same EXCEPT !.updated =
                          [updated EXCEPT ![i].totalStock = total,
                                          ![i].category = category,
                                          ![i].recommendedQty = rec.recommendedQty,
                                          ![i].note = rec.note,
                                          ![i].updatedAt = now]]
                  ELSE same
           ELSE [updated |-> <<NewAlert(p, total, category, rec, now)>> \o updated,
                 alertByProduct |-> [alertByProduct EXCEPT ![pid] = Len(updated)]]
    ELSE IF existing # -1 /\ updated[i].workflowStatus # "RESOLVED"
           THEN [same EXCEPT !.updated =
                   [updated EXCEPT ![i].totalStock = total,
                                   ![i].category = category,
                                   ![i].recommendedQty = rec.recommendedQty,
                                   ![i].note = rec.note,
                                   ![i].workflowStatus = "RESOLVED",
                                   ![i].updatedAt = now]]
           ELSE same

\* ReconcileProduct whose refresh leaves totalStock as it was
ReconcileProductKeepsTotal(p, lines, updated, alertByProduct, now) ==
  LET pid == p.id
      total == SumQuantity(lines, pid)
      category == categorizeStock(total, p.reorderPoint)
      rec == recommendReorder(total, p.reorderPoint)
      existing == alertByProduct[pid]
      i == AlertAt(updated, existing)
      same == [updated |-> updated, alertByProduct |-> alertByProduct]
  IN
  IF category = "critical" \/ category = "low"
    THEN IF existing # -1
           THEN IF updated[i].workflowStatus # "RESOLVED"
                  THEN [same EXCEPT !.updated =
                          [updated EXCEPT ![i].category = category,
                                          ![i].recommendedQty = rec.recommendedQty,
                                          ![i].note = rec.note,
                                          ![i].updatedAt = now]]
                  ELSE same
           ELSE [updated |-> <<NewAlert(p, total, category, rec, now)>> \o updated,
                 alertByProduct |-> [alertByProduct EXCEPT ![pid] = Len(updated)]]
    ELSE IF existing # -1 /\ updated[i].workflowStatus # "RESOLVED"
           THEN [same EXCEPT !.updated =
                   [updated EXCEPT ![i].workflowStatus = "RESOLVED", ![i].updatedAt = now]]
           ELSE same

\* ReconcileProduct whose refresh also sets the alert back to NEW
ReconcileProductResetsStatus(p, lines, updated, alertByProduct, now) ==
  LET pid == p.id
      total == SumQuantity(lines, pid)
      category == categorizeStock(total, p.reorderPoint)
      rec == recommendReorder(total, p.reorderPoint)
      existing == alertByProduct[pid]
      i == AlertAt(updated, existing)
      same == [updated |-> updated, alertByProduct |-> alertByProduct]
  IN
  IF category = "critical" \/ category = "low"
    THEN IF existing # -1
           THEN IF updated[i].workflowStatus # "RESOLVED"
                  THEN [same EXCEPT !.updated =
                          [updated EXCEPT ![i].totalStock = total,
                                          ![i].category = category,
                                          ![i].recommendedQty = rec.recommendedQty,
                                          ![i].note = rec.note,
                                          ![i].workflowStatus = "NEW",
                                          ![i].updatedAt = now]]
                  ELSE same
           ELSE [updated |-> <<NewAlert(p, total, category, rec, now)>> \o updated,
                 alertByProduct |-> [alertByProduct EXCEPT ![pid] = Len(updated)]]
    ELSE IF existing # -1 /\ updated[i].workflowStatus # "RESOLVED"
           THEN [same EXCEPT !.updated =
                   [updated EXCEPT ![i].workflowStatus = "RESOLVED", ![i].updatedAt = now]]
           ELSE same

\* ReconcileProduct that skips a product without a reorder point
ReconcileProductSkipsNoReorderPoint(p, lines, updated, alertByProduct, now) ==
  LET pid == p.id
      total == SumQuantity(lines, pid)
      category == categorizeStock(total, p.reorderPoint)
      rec == recommendReorder(total, p.reorderPoint)
      existing == alertByProduct[pid]
      i == AlertAt(updated, existing)
      same == [updated |-> updated, alertByProduct |-> alertByProduct]
  IN
  IF p.reorderPoint <= 0 THEN same
  ELSE IF category = "critical" \/ category = "low"
    THEN IF existing # -1
           THEN IF updated[i].workflowStatus # "RESOLVED"
                  THEN [same EXCEPT !.updated =
                          [updated EXCEPT ![i].totalStock = total,
                                          ![i].category = category,
                                          ![i].recommendedQty = rec.recommendedQty,
                                          ![i].note = rec.note,
                                          ![i].updatedAt = now]]
                  ELSE same
           ELSE [updated |-> <<NewAlert(p, total, category, rec, now)>> \o updated,
                 alertByProduct |-> [alertByProduct EXCEPT ![pid] = Len(updated)]]
    ELSE IF existing # -1 /\ updated[i].workflowStatus # "RESOLVED"
           THEN [same EXCEPT !.updated =
                   [updated EXCEPT ![i].workflowStatus = "RESOLVED", ![i].updatedAt = now]]
           ELSE same

\* one iteration of the loop `for (const p of products)` of generateAlerts:
\* the array `updated` and the map alertByProduct after product p
ReconcileProduct(p, lines, updated, alertByProduct, now) ==
  LET pid == p.id
      total == SumQuantity(lines, pid)
      category == categorizeStock(total, p.reorderPoint)
      rec == recommendReorder(total, p.reorderPoint)
      existing == alertByProduct[pid]
      i == AlertAt(updated, existing)
      same == [updated |-> updated, alertByProduct |-> alertByProduct]
  IN
  IF category = "critical" \/ category = "low"
    THEN IF existing # -1
           THEN IF updated[i].workflowStatus # "RESOLVED"
                  THEN [same EXCEPT !.updated =
                          [updated EXCEPT ![i].totalStock = total,
                                          ![i].category = category,
                                          ![i].recommendedQty = rec.recommendedQty,
                                          ![i].note = rec.note,
                                          ![i].updatedAt = now]]
                  ELSE same
           ELSE [updated |-> <<NewAlert(p, total, category, rec, now)>> \o updated,
                 alertByProduct |-> [alertByProduct EXCEPT ![pid] = Len(updated)]]
    ELSE IF existing # -1 /\ updated[i].workflowStatus # "RESOLVED"
           THEN [same EXCEPT !.updated =
                   [updated EXCEPT ![i].workflowStatus = "RESOLVED", ![i].updatedAt = now]]
           ELSE same

RECURSIVE GenerateLoop(_, _, _, _, _)
\* the loop over the products left
GenerateLoop(prods, lines, updated, alertByProduct, now) ==
  IF prods = <<>> THEN updated
  ELSE LET after == ReconcileProduct(Head(prods), lines, updated, alertByProduct, now)
       IN GenerateLoop(Tail(prods), lines, after.updated, after.alertByProduct, now)

\* the array generateAlerts saves and returns
GeneratedAlerts(prods, lines, existingAlerts, now) ==
  GenerateLoop(prods, lines, existingAlerts,
    AlertByProduct(existingAlerts, {prods[k].id : k \in 1..Len(prods)}), now)

\* generateAlerts()
generateAlerts ==
  LET updated == GeneratedAlerts(products, stock, alerts, clock) IN
  /\ alerts' = updated
  /\ result' = Returned("generateAlerts", updated)
  /\ UNCHANGED <<products, stock, transfers, clock, stock0, applied, crashes, args, calls>>

\* UpdateError without the test `valid.includes(workflowStatus)`
UpdateErrorAnyStatus(arr, id, workflowStatus) ==
  IF FindById(arr, id) = 0 THEN "Alert not found"
  ELSE ""

\* UpdateError that treats RESOLVED as final: a RESOLVED alert accepts no
\* other status
UpdateErrorResolvedFinal(arr, id, workflowStatus) ==
  IF FindById(arr, id) = 0 THEN "Alert not found"
  ELSE IF workflowStatus \notin valid THEN "Invalid workflow status"
  ELSE IF arr[FindById(arr, id)].workflowStatus = "RESOLVED" /\ workflowStatus # "RESOLVED"
    THEN "Invalid workflow status"
  ELSE ""

\* the first failing check of updateAlertStatus, "" when both pass
UpdateError(arr, id, workflowStatus) ==
  IF FindById(arr, id) = 0 THEN "Alert not found"
  ELSE IF workflowStatus \notin valid THEN "Invalid workflow status"
  ELSE ""

\* UpdatedAlerts with `alert.comment = comment` not guarded by `if (comment)`
UpdatedAlertsCommentOverwritten(arr, id, workflowStatus, comment, now) ==
  LET i == FindById(arr, id) IN
  [arr EXCEPT ![i].workflowStatus = workflowStatus,
              ![i].updatedAt = now,
              ![i].comment = comment]

\* the alerts array after updateAlertStatus has changed the alert it found
UpdatedAlerts(arr, id, workflowStatus, comment, now) ==
  LET i == FindById(arr, id) IN
  [arr EXCEPT ![i].workflowStatus = workflowStatus,
              ![i].updatedAt = now,
              ![i].comment = IF comment # Undefined /\ comment # "" THEN comment ELSE @]

\* updateAlertStatus(id, workflowStatus, comment)
updateAlertStatus(id, workflowStatus, comment) ==
  LET error == UpdateError(alerts, id, workflowStatus)
      updated == UpdatedAlerts(alerts, id, workflowStatus, comment, clock)
  IN
  /\ IF error # ""
       THEN /\ result' = Thrown("updateAlertStatus", error)
            /\ UNCHANGED alerts
       ELSE /\ alerts' = updated
            /\ result' = Returned("updateAlertStatus", <<updated[FindById(alerts, id)]>>)
  /\ UNCHANGED <<products, stock, transfers, clock, stock0, applied, crashes, args, calls>>

\* time passes between two calls
Tick ==
  /\ clock < MaxClock
  /\ clock' = clock + 1
  /\ UNCHANGED <<products, stock, transfers, alerts, result, stock0, applied, crashes, args, calls>>

(* ---------- Requests and start states ---------- *)

\* request text for the ids of the products and warehouses on file
KnownIds == { <<"1">>, <<"2">> }

\* request text for quantities: negative, zero, positive
Quantities == { <<"-", "1">>, <<"0">>, <<"1">>, <<"2">> }

\* requests with one field that is not a number or names nothing on file
Malformed ==
  { << <<"x">>, <<"1">>, <<"2">>, <<"1">> >>,
    << <<"1">>, <<"x">>, <<"2">>, <<"1">> >>,
    << <<"1">>, <<"2">>, <<"1">>, <<"x">> >>,
    << <<"9">>, <<"1">>, <<"2">>, <<"1">> >>,
    << <<"1">>, <<"9">>, <<"2">>, <<"1">> >>,
    << <<"1">>, <<"2">>, <<"9">>, <<"1">> >>,
    << <<"1">>, <<>>, <<"2">>, <<"1">> >> }

\* the transfer requests sent: <<productId, fromWarehouseId, toWarehouseId, quantity>>
TransferRequests ==
  (KnownIds \X KnownIds \X KnownIds \X Quantities) \cup Malformed

\* alert ids a caller can send: the ids of the alerts on file (the page sends
\* the id of an alert it shows), and one no alert has
AlertIds == {alerts[i].id : i \in 1..Len(alerts)} \cup {<<0, 0>>}

\* workflow statuses a caller can send
RawStatuses == valid \cup {"CLOSED"}

\* comments a caller can send
RawComments == {Undefined, "", "called supplier"}

Product(id, rp) == [id |-> id, sku |-> <<"SKU", id>>, reorderPoint |-> rp]

\* catalogs: product 2 with and without a reorder point
CatalogA == << Product(1, 3), Product(2, 1) >>
CatalogB == << Product(1, 3), Product(2, 0) >>

Line(pid, wid, q) == [id |-> 0, productId |-> pid, warehouseId |-> wid, quantity |-> q]

\* ledgers at start: at most one line per (product, warehouse), quantities >= 0
LedgerLow == << Line(1, 1, 2), Line(2, 1, 1) >>
LedgerCritical == << Line(1, 1, 1), Line(1, 2, 0), Line(2, 2, 2) >>
LedgerAdequate == << Line(1, 1, 3), Line(2, 1, 0) >>
LedgerBothLow == << Line(1, 2, 2), Line(2, 1, 0) >>

\* an alert an earlier pass created at instant 0, when product pid had no
\* stock and reorder point 1, since moved to status
EarlierAlert(pid, status) ==
  [NewAlert(Product(pid, 1), 0, "critical", recommendReorder(0, 1), 0)
     EXCEPT !.workflowStatus = status]

\* an earlier alert that carries a comment written at that time
CommentedAlert(pid, status) ==
  [EarlierAlert(pid, status) EXCEPT !.comment = "awaiting quote"]

Deployment(catalog, ledger, existingAlerts) ==
  [products |-> catalog, stock |-> ledger, alerts |-> existingAlerts]

\* the state after loading a deployment: no transfer made yet
Start(d) ==
  /\ products = d.products
  /\ stock = d.stock
  /\ transfers = <<>>
  /\ alerts = d.alerts
  /\ clock = 0
  /\ result = [op |-> "none", ok |-> TRUE, error |-> "", ret |-> <<>>]
  /\ stock0 = stock
  /\ applied = <<>>
  /\ crashes = 0
  /\ args = <<>>
  /\ calls = <<>>

(* ---------- Runs of all three operations ---------- *)

Init ==
  \E d \in { Deployment(CatalogA, LedgerLow, <<>>),
             Deployment(CatalogB, LedgerAdequate, << EarlierAlert(2, "NEW") >>) } :
    Start(d)

\* a transfer request
TransferCall ==
  /\ \E r \in TransferRequests : performStockTransfer(r[1], r[2], r[3], r[4], TRUE)
  /\ Len(applied') <= MaxMoves

\* a workflow request
UpdateCall ==
  \E id \in AlertIds, s \in RawStatuses, c \in RawComments :
    updateAlertStatus(id, s, c)

Next ==
  \/ TransferCall
  \/ generateAlerts
  \/ UpdateCall
  \/ Tick

Spec == Init /\ [][Next]_vars

(* ---------- Runs that only move stock ---------- *)

InitTransfers ==
  \E d \in { Deployment(CatalogA, LedgerLow, <<>>),
             Deployment(CatalogA, LedgerCritical, <<>>) } :
    Start(d)

\* a transfer request whose log write may fail
TransferOrCrash ==
  /\ \E r \in TransferRequests, logSaved \in BOOLEAN :
       performStockTransfer(r[1], r[2], r[3], r[4], logSaved)
  /\ Len(applied') <= MaxTransfers
  /\ crashes' <= MaxCrashes

NextTransfers ==
  \/ TransferOrCrash
  \/ Tick

SpecTransfers == InitTransfers /\ [][NextTransfers]_vars

(* ---------- Runs that only handle alerts ---------- *)

InitAlerts ==
  \E d \in { Deployment(CatalogA, LedgerLow, <<>>),
             Deployment(CatalogA, LedgerCritical, << EarlierAlert(2, "ACKNOWLEDGED") >>),
             Deployment(CatalogB, LedgerAdequate, << EarlierAlert(2, "NEW") >>),
             Deployment(CatalogA, LedgerAdequate, << EarlierAlert(1, "ORDERED") >>),
             Deployment(CatalogA, LedgerBothLow, <<>>),
             Deployment(CatalogA, LedgerLow, << CommentedAlert(1, "ORDERED") >>) } :
    Start(d)

NextAlerts ==
  \/ generateAlerts
  \/ UpdateCall
  \/ Tick

SpecAlerts == InitAlerts /\ [][NextAlerts]_vars

(* ---------- Runs that only move alerts through the workflow ---------- *)

\* two alerts on file: one resolved, one ordered and commented
InitWorkflow ==
  Start(Deployment(CatalogA, LedgerBothLow,
                   << EarlierAlert(2, "RESOLVED"), CommentedAlert(1, "ORDERED") >>))

NextWorkflow ==
  \/ UpdateCall
  \/ Tick

SpecWorkflow == InitWorkflow /\ [][NextWorkflow]_vars

(* ---------- Calls of the two pure functions ---------- *)

\* the totals and reorder points passed
Totals == 0..MaxTotal
ReorderPoints == (0 - 2)..MaxReorderPoint

\* args holds the arguments <<total, reorderPoint>> of the calls to come
InitFunctions ==
  \E total \in Totals, reorderPoint \in ReorderPoints :
    /\ products = CatalogA
    /\ stock = LedgerLow
    /\ transfers = <<>>
    /\ alerts = <<>>
    /\ clock = 0
    /\ result = [op |-> "none", ok |-> TRUE, error |-> "", ret |-> <<>>]
    /\ stock0 = stock
    /\ applied = <<>>
    /\ crashes = 0
    /\ args = <<total, reorderPoint>>
    /\ calls = <<>>

\* a call categorizeStock(total, reorderPoint)
CategorizeCall ==
  /\ result' = Returned("categorizeStock", categorizeStock(args[1], args[2]))
  /\ UNCHANGED <<products, stock, transfers, alerts, clock, stock0, applied, crashes, args, calls>>

\* a call recommendReorder(total, reorderPoint)
RecommendCall ==
  /\ result' = Returned("recommendReorder", recommendReorder(args[1], args[2]))
  /\ UNCHANGED <<products, stock, transfers, alerts, clock, stock0, applied, crashes, args, calls>>

NextFunctions ==
  \/ CategorizeCall
  \/ RecommendCall

SpecFunctions == InitFunctions /\ [][NextFunctions]_vars

(* ---------- Calls of one transfer request, any text in any field ---------- *)

\* request text for an id: on file, not on file, not a number, empty
RawIds == KnownIds \cup { <<"9">>, <<"x">>, <<>> }

\* request text for a quantity
RawQuantities == Quantities \cup { <<"x">> }

\* args holds the request <<productId, fromWarehouseId, toWarehouseId, quantity>>
InitRequests ==
  \E r \in RawIds \X RawIds \X RawIds \X RawQuantities :
    /\ products = CatalogA
    /\ stock = LedgerLow
    /\ transfers = <<>>
    /\ alerts = <<>>
    /\ clock = 0
    /\ result = [op |-> "none", ok |-> TRUE, error |-> "", ret |-> <<>>]
    /\ stock0 = stock
    /\ applied = <<>>
    /\ crashes = 0
    /\ args = r
    /\ calls = <<>>

\* the request is sent (again)
RequestCall ==
  performStockTransfer(args[1], args[2], args[3], args[4], TRUE)

NextRequests ==
  \/ RequestCall
  \/ Tick

SpecRequests == InitRequests /\ [][NextRequests]_vars

(* ---------- Two transfer calls in flight ---------- *)

\* the two requests being handled at the same time
Callers == {"A", "B"}

\* requests that pass the checks of the ids and the quantity
RaceRequests == KnownIds \X KnownIds \X KnownIds \X { <<"1">>, <<"2">> }

\* a call that has started its four reads (Promise.all) and holds nothing yet
InFlight(r) ==
  [ pc |-> "reading", request |-> r,
    stock |-> <<>>, stockRead |-> FALSE,
    transfers |-> <<>>, transfersRead |-> FALSE,
    ret |-> <<>> ]

InitRace ==
  \E d \in { Deployment(CatalogA, LedgerLow, <<>>),
             Deployment(CatalogA, LedgerCritical, <<>>) },
     ra \in RaceRequests, rb \in RaceRequests :
    /\ products = d.products
    /\ stock = d.stock
    /\ transfers = <<>>
    /\ alerts = d.alerts
    /\ clock = 0
    /\ result = [op |-> "none", ok |-> TRUE, error |-> "", ret |-> <<>>]
    /\ stock0 = stock
    /\ applied = <<>>
    /\ crashes = 0
    /\ args = <<>>
    /\ calls = [c \in Callers |-> InFlight(IF c = "A" THEN ra ELSE rb)]

\* LocalStock as if the call read stock.json again just before it saves
LocalStockFresh(c) == stock

\* the array `stock` call c works on: what getStock() gave it
LocalStock(c) == calls[c].stock

\* getStock() of call c completes
ReadStock(c) ==
  /\ calls[c].pc = "reading"
  /\ ~calls[c].stockRead
  /\ calls' = [calls EXCEPT ![c].stock = stock, ![c].stockRead = TRUE]
  /\ UNCHANGED <<products, stock, transfers, alerts, clock, result, stock0, applied, crashes, args>>

\* getTransfers() of call c completes
ReadTransfers(c) ==
  /\ calls[c].pc = "reading"
  /\ ~calls[c].transfersRead
  /\ calls' = [calls EXCEPT ![c].transfers = transfers, ![c].transfersRead = TRUE]
  /\ UNCHANGED <<products, stock, transfers, alerts, clock, result, stock0, applied, crashes, args>>

\* call c, all reads done, runs its checks on what it read and either throws
\* or changes its copy of the ledger and writes it: saveStock
SaveStock(c) ==
  LET r == calls[c].request
      pid == Number(r[1])
      fromId == Number(r[2])
      toId == Number(r[3])
      qty == Number(r[4])
      error == TransferError(products, LocalStock(c), pid, fromId, toId, qty)
  IN
  /\ calls[c].pc = "reading"
  /\ calls[c].stockRead /\ calls[c].transfersRead
  /\ IF error # ""
       THEN /\ calls' = [calls EXCEPT ![c].pc = "thrown"]
            /\ result' = Thrown("performStockTransfer", error)
            /\ UNCHANGED <<stock, applied>>
       ELSE /\ stock' = MovedStock(LocalStock(c), pid.val, fromId.val, toId.val, qty.val, clock)
            /\ applied' = <<Move(pid.val, fromId.val, toId.val, qty.val)>> \o applied
            /\ calls' = [calls EXCEPT ![c].pc = "stockSaved"]
            /\ UNCHANGED result
  /\ UNCHANGED <<products, transfers, alerts, clock, stock0, crashes, args>>

\* call c puts its record in front of the log it read, writes that log and
\* returns: saveTransfers
SaveTransfers(c) ==
  LET r == calls[c].request
      transferRecord == TransferRecord(calls[c].transfers, Number(r[1]).val, Number(r[2]).val,
                                       Number(r[3]).val, Number(r[4]).val, clock)
  IN
  /\ calls[c].pc = "stockSaved"
  /\ transfers' = <<transferRecord>> \o calls[c].transfers
  /\ calls' = [calls EXCEPT ![c].pc = "returned", ![c].ret = <<transferRecord>>]
  /\ result' = Returned("performStockTransfer", <<transferRecord>>)
  /\ UNCHANGED <<products, stock, alerts, clock, stock0, applied, crashes, args>>

NextRace ==
  \/ \E c \in Callers : ReadStock(c)
  \/ \E c \in Callers : ReadTransfers(c)
  \/ \E c \in Callers : SaveStock(c)
  \/ \E c \in Callers : SaveTransfers(c)

SpecRace == InitRace /\ [][NextRace]_vars

(* ---------- A reconcile pass and a workflow update in flight ---------- *)

\* a call that has started reading and holds nothing yet; request is
\* <<id, workflowStatus, comment>> for updateAlertStatus, <<>> for generateAlerts
Reading(request) ==
  [pc |-> "reading", request |-> request, alerts |-> <<>>, alertsRead |-> FALSE]

InitAlertRace ==
  \E d \in { Deployment(CatalogA, LedgerLow, << EarlierAlert(1, "NEW") >>),
             Deployment(CatalogA, LedgerLow, << CommentedAlert(1, "ORDERED") >>),
             Deployment(CatalogB, LedgerAdequate, << EarlierAlert(2, "NEW") >>) },
     id \in { <<0, 1>>, <<0, 2>> }, s \in RawStatuses, c \in RawComments :
    /\ products = d.products
    /\ stock = d.stock
    /\ transfers = <<>>
    /\ alerts = d.alerts
    /\ clock = 0
    /\ result = [op |-> "none", ok |-> TRUE, error |-> "", ret |-> <<>>]
    /\ stock0 = stock
    /\ applied = <<>>
    /\ crashes = 0
    /\ args = <<>>
    /\ calls = [pass |-> Reading(<<>>), update |-> Reading(<<id, s, c>>)]

\* the array call c works on: what getAlerts() gave it
LocalAlerts(c) == calls[c].alerts

\* getAlerts() of call c completes
ReadAlerts(c) ==
  /\ calls[c].pc = "reading"
  /\ ~calls[c].alertsRead
  /\ calls' = [calls EXCEPT ![c].alerts = alerts, ![c].alertsRead = TRUE]
  /\ UNCHANGED <<products, stock, transfers, alerts, clock, result, stock0, applied, crashes, args>>

\* generateAlerts reconciles the alerts it read with the ledger, saves them
\* and returns
PassSave ==
  LET updated == GeneratedAlerts(products, stock, LocalAlerts("pass"), clock) IN
  /\ calls["pass"].pc = "reading"
  /\ calls["pass"].alertsRead
  /\ alerts' = updated
  /\ calls' = [calls EXCEPT !["pass"].pc = "returned"]
  /\ result' = Returned("generateAlerts", updated)
  /\ UNCHANGED <<products, stock, transfers, clock, stock0, applied, crashes, args>>

\* updateAlertStatus runs its checks on the alerts it read and either throws
\* or changes the alert, saves the array and returns
UpdateSave ==
  LET r == calls["update"].request
      error == UpdateError(LocalAlerts("update"), r[1], r[2])
      updated == UpdatedAlerts(LocalAlerts("update"), r[1], r[2], r[3], clock)
  IN
  /\ calls["update"].pc = "reading"
  /\ calls["update"].alertsRead
  /\ IF error # ""
       THEN /\ calls' = [calls EXCEPT !["update"].pc = "thrown"]
            /\ result' = Thrown("updateAlertStatus", error)
            /\ UNCHANGED alerts
       ELSE /\ alerts' = updated
            /\ calls' = [calls EXCEPT !["update"].pc = "returned"]
            /\ result' = Returned("updateAlertStatus",
                                  <<updated[FindById(LocalAlerts("update"), r[1])]>>)
  /\ UNCHANGED <<products, stock, transfers, clock, stock0, applied, crashes, args>>

NextAlertRace ==
  \/ \E c \in {"pass", "update"} : ReadAlerts(c)
  \/ PassSave
  \/ UpdateSave
  \/ Tick

SpecAlertRace == InitAlertRace /\ [][NextAlertRace]_vars

(* ---------- The alerts page, open in two browsers ---------- *)

Clients == {"first", "second"}

\* the buttons of a row: the status each sends
Buttons == {"ACKNOWLEDGED", "ORDERED", "RESOLVED"}

\* the attribute `disabled` of the button that sends status, on a row that
\* shows workflowStatus shown
Disabled(status, shown) ==
  CASE status = "ACKNOWLEDGED" -> shown # "NEW"
    [] status = "ORDERED" -> ~(shown = "ACKNOWLEDGED" \/ shown = "NEW")
    [] status = "RESOLVED" -> FALSE

\* both pages are mounted with useState([]) and have not loaded yet
InitPage ==
  \E d \in { Deployment(CatalogA, LedgerLow, <<>>),
             Deployment(CatalogB, LedgerAdequate, << EarlierAlert(2, "NEW") >>) } :
    /\ products = d.products
    /\ stock = d.stock
    /\ transfers = <<>>
    /\ alerts = d.alerts
    /\ clock = 0
    /\ result = [op |-> "none", ok |-> TRUE, error |-> "", ret |-> <<>>]
    /\ stock0 = stock
    /\ applied = <<>>
    /\ crashes = 0
    /\ args = <<>>
    /\ calls = [c \in Clients |-> [alerts |-> <<>>]]

\* load(): GET /api/alerts runs generateAlerts and the page shows what it returned
Load(c) ==
  LET updated == GeneratedAlerts(products, stock, alerts, clock) IN
  /\ alerts' = updated
  /\ result' = Returned("generateAlerts", updated)
  /\ calls' = [calls EXCEPT ![c].alerts = updated]
  /\ UNCHANGED <<products, stock, transfers, clock, stock0, applied, crashes, args>>

\* a click on an enabled button of row i of page c: updateStatus(a.id, status)
\* posts the request, updateAlertStatus runs, and on success the page replaces
\* the row by the alert returned
Click(c, i, status) ==
  LET a == calls[c].alerts[i]
      error == UpdateError(alerts, a.id, status)
      updated == UpdatedAlerts(alerts, a.id, status, Undefined, clock)
      data == updated[FindById(alerts, a.id)]
  IN
  /\ ~Disabled(status, a.workflowStatus)
  /\ IF error # ""
       THEN /\ result' = Thrown("updateAlertStatus", error)
            /\ UNCHANGED <<alerts, calls>>
       ELSE /\ alerts' = updated
            /\ result' = Returned("updateAlertStatus", <<data>>)
            /\ calls' = [calls EXCEPT ![c].alerts =
                           [k \in 1..Len(calls[c].alerts) |->
                              IF calls[c].alerts[k].id = a.id THEN data ELSE calls[c].alerts[k]]]
  /\ UNCHANGED <<products, stock, transfers, clock, stock0, applied, crashes, args>>

\* some page loads
LoadCall == \E c \in Clients : Load(c)

\* some enabled button of some row of some page is clicked
ClickCall ==
  \E c \in Clients : \E i \in 1..Len(calls[c].alerts) : \E status \in Buttons :
    Click(c, i, status)

NextPage ==
  \/ LoadCall
  \/ ClickCall
  \/ Tick

SpecPage == InitPage /\ [][NextPage]_vars

(* ---------- Reconciliation followed by transfers ---------- *)

\* start: alerts left by an earlier pass that no longer match the ledger
InitReconcile ==
  \E d \in { Deployment(CatalogA, LedgerLow, << CommentedAlert(1, "ORDERED") >>),
             Deployment(CatalogA, LedgerBothLow, << EarlierAlert(2, "ACKNOWLEDGED") >>) } :
    Start(d)

\* one of a serial sequence of transfer requests
SerialTransferCall ==
  /\ \E r \in TransferRequests : performStockTransfer(r[1], r[2], r[3], r[4], TRUE)
  /\ Len(applied') <= MaxTransfers

NextReconcile ==
  \/ SerialTransferCall
  \/ generateAlerts
  \/ Tick

SpecReconcile == InitReconcile /\ [][NextReconcile]_vars

(* ---------- Properties of the stock transfer workflow ---------- *)

\* the ids of the products of the catalog and of the ledger
ProductIds ==
  {products[k].id : k \in 1..Len(products)} \cup {stock0[k].productId : k \in 1..Len(stock0)}

\* the quantity recorded for (pid, wid): that of its stock line, 0 without one
Available(lines, pid, wid) ==
  IF \E i \in 1..Len(lines) : lines[i].productId = pid /\ lines[i].warehouseId = wid
    THEN lines[CHOOSE i \in 1..Len(lines) :
                 lines[i].productId = pid /\ lines[i].warehouseId = wid].quantity
    ELSE 0

\* C1 Conservation: for every product the sum of the quantities of its stock
\* lines over all warehouses equals the sum in the ledger at start, after any
\* sequence of transfer calls (successful, rejected, or stopped before the log
\* write); so each successful transfer leaves the sum as it was.
Conservation ==
  \A pid \in ProductIds : SumQuantity(stock, pid) = SumQuantity(stock0, pid)

\* C1 witness: two moves have been written to the ledger and it differs from the start
ConservationWitness ==
  /\ Len(transfers) = 2
  /\ stock # stock0
  /\ \E i \in 1..Len(stock) : stock[i].quantity = 2 /\ stock[i].id # 0

\* C2 Non-negativity: no stock line has a negative quantity
NonNegativity ==
  \A i \in 1..Len(stock) : stock[i].quantity >= 0

\* C2 witness: a transfer has drained a source line to exactly 0
NonNegativityWitness ==
  /\ result.op = "performStockTransfer" /\ result.ok
  /\ \E i \in 1..Len(stock0) : stock0[i].quantity > 0 /\ stock[i].quantity = 0

\* the request is one the claim says must be rejected: quantity <= 0, equal
\* warehouses, or more than the source line holds
Rejectable(p, f, t, q) ==
  \/ IsFinite(Number(q)) /\ Number(q).val <= 0
  \/ f = t
  \/ /\ IsFinite(Number(p)) /\ IsFinite(Number(f)) /\ IsFinite(Number(q))
     /\ Number(q).val > Available(stock, Number(p).val, Number(f).val)

\* C3 Rejection: every step is either a transfer call that threw and left
\* stock.json and transfers.json as they were, or it is not the call of any
\* request with quantity <= 0, equal warehouses or quantity above the source
\* line's; that is, every such call throws and changes neither file.
Rejection ==
  [][ \/ /\ result'.op = "performStockTransfer"
         /\ ~result'.ok
         /\ stock' = stock
         /\ transfers' = transfers
      \/ \A r \in TransferRequests :
           Rejectable(r[1], r[2], r[3], r[4]) =>
             ~(\E logSaved \in BOOLEAN :
                 performStockTransfer(r[1], r[2], r[3], r[4], logSaved)) ]_vars

\* C3 witness: after a move was logged, a call was rejected for insufficient stock
RejectionWitness ==
  /\ result.op = "performStockTransfer"
  /\ result.error = "Insufficient stock in source warehouse"
  /\ Len(transfers) = 1
  /\ stock # stock0

\* the request passes the checks made before the ledger is read: numeric ids,
\* distinct warehouses, positive quantity, known product and warehouses
PassesRequestChecks(p, f, t, q) ==
  /\ IsFinite(Number(p)) /\ IsFinite(Number(f)) /\ IsFinite(Number(t)) /\ IsFinite(Number(q))
  /\ Number(f).val # Number(t).val
  /\ Number(q).val > 0
  /\ \E k \in 1..Len(products) : products[k].id = Number(p).val
  /\ \E k \in 1..Len(warehouses) : warehouses[k].id = Number(f).val
  /\ \E k \in 1..Len(warehouses) : warehouses[k].id = Number(t).val

\* (pid, wid) has a stock line
HasLine(lines, pid, wid) ==
  \E i \in 1..Len(lines) : lines[i].productId = pid /\ lines[i].warehouseId = wid

\* C4 Missing source line: a call that passes the request checks throws
\* 'Source stock record not found' when (productId, fromWarehouseId) has no
\* stock line, and 'Insufficient stock in source warehouse' when the line
\* exists and holds less than the requested quantity.
MissingSourceLineError ==
  [][ \A r \in TransferRequests :
        (/\ PassesRequestChecks(r[1], r[2], r[3], r[4])
         /\ performStockTransfer(r[1], r[2], r[3], r[4], TRUE)) =>
          /\ ~HasLine(stock, Number(r[1]).val, Number(r[2]).val) =>
               result'.error = "Source stock record not found"
          /\ (/\ HasLine(stock, Number(r[1]).val, Number(r[2]).val)
              /\ Available(stock, Number(r[1]).val, Number(r[2]).val) < Number(r[4]).val) =>
               result'.error = "Insufficient stock in source warehouse" ]_vars

\* the move a transfer record narrates
MoveOf(record) ==
  Move(record.productId, record.fromWarehouseId, record.toWarehouseId, record.quantity)

RECURSIVE IsSubsequence(_, _)
\* the elements of a occur in b in the same order
IsSubsequence(a, b) ==
  IF a = <<>> THEN TRUE
  ELSE IF b = <<>> THEN FALSE
  ELSE IF Head(a) = Head(b) THEN IsSubsequence(Tail(a), Tail(b))
  ELSE IsSubsequence(a, Tail(b))

RECURSIVE NetMoved(_, _, _)
\* what the moves add to the quantity of (pid, wid)
NetMoved(moves, pid, wid) ==
  IF moves = <<>> THEN 0
  ELSE NetMoved(Tail(moves), pid, wid)
       + (IF Head(moves).productId = pid /\ Head(moves).toWarehouseId = wid
            THEN Head(moves).quantity ELSE 0)
       - (IF Head(moves).productId = pid /\ Head(moves).fromWarehouseId = wid
            THEN Head(moves).quantity ELSE 0)

\* C5 Ledger before history: in every state, including those after a call
\* stopped between saveStock and saveTransfers, the moves the log narrates
\* are, in order, among the moves written to the ledger, the ledger holds the
\* start quantities changed by exactly the moves written to it, and the log
\* lacks one entry for each stopped call and no other (so at most one entry
\* after one such stop).
LedgerBeforeHistory ==
  /\ IsSubsequence([i \in 1..Len(transfers) |-> MoveOf(transfers[i])], applied)
  /\ \A pid \in ProductIds, wid \in {1, 2} :
       Available(stock, pid, wid) = Available(stock0, pid, wid) + NetMoved(applied, pid, wid)
  /\ Len(applied) - Len(transfers) >= 0
  /\ Len(applied) - Len(transfers) <= crashes
  /\ crashes <= 1 => Len(applied) - Len(transfers) <= 1

\* C5 witness: one call stopped between the writes, a later call completed:
\* the ledger has both moves, the log only the later one
LedgerBeforeHistoryWitness ==
  /\ crashes = 1
  /\ Len(applied) = 2
  /\ Len(transfers) = 1
  /\ MoveOf(transfers[1]) = applied[1]
  /\ result.ok

\* C6 Append-only log: a step leaves transfers.json as it was, or puts exactly
\* one record with status COMPLETED in front of the unchanged earlier records
\* and is a call that returned that record; and every transfer call that
\* returns has put in front a record with the product, warehouses and quantity
\* of its request.  So a call that throws adds no record.
AppendOnlyLog ==
  [][ /\ \/ transfers' = transfers
         \/ /\ transfers' = <<Head(transfers')>> \o transfers
            /\ Head(transfers').status = "COMPLETED"
            /\ result' = Returned("performStockTransfer", <<Head(transfers')>>)
      /\ \/ result'.op # "performStockTransfer"
         \/ ~result'.ok
         \/ \A r \in TransferRequests :
              performStockTransfer(r[1], r[2], r[3], r[4], TRUE) =>
                /\ Len(transfers') = Len(transfers) + 1
                /\ Head(transfers').productId = Number(r[1]).val
                /\ Head(transfers').fromWarehouseId = Number(r[2]).val
                /\ Head(transfers').toWarehouseId = Number(r[3]).val
                /\ Head(transfers').quantity = Number(r[4]).val ]_vars

\* C6 witness: the second completed transfer has returned the record now at the head
AppendOnlyLogWitness ==
  /\ Len(transfers) = 2
  /\ result.op = "performStockTransfer" /\ result.ok
  /\ result.ret = <<transfers[1]>>
  /\ transfers[2].id[2] = 1

\* C20 StockLine uniqueness: the ledger, which starts with at most one line
\* per (productId, warehouseId), has at most one line per pair after any
\* sequence of transfer calls.
UniqueStockLines ==
  \A i, j \in 1..Len(stock) :
    (stock[i].productId = stock[j].productId /\ stock[i].warehouseId = stock[j].warehouseId)
      => i = j

\* C20 witness: a transfer created the destination line and the next one to
\* the same warehouse credited that line
UniqueStockLinesWitness ==
  /\ result.op = "performStockTransfer" /\ result.ok
  /\ Len(stock) = Len(stock0) + 1
  /\ Len(applied) = 2
  /\ applied[1].toWarehouseId = applied[2].toWarehouseId
  /\ applied[1].productId = applied[2].productId
  /\ stock[Len(stock)].quantity = 2

\* C21 Lazy creation, no deletion: every step keeps every stock line in its
\* place with its id, product and warehouse (so a line drained to 0 stays,
\* with quantity 0), and a transfer call that returns for a (product,
\* destination) pair without a line adds exactly one line, for that pair,
\* holding the transferred quantity.
LazyLinesNeverDeleted ==
  [][ /\ Len(stock') >= Len(stock)
      /\ \A i \in 1..Len(stock) :
           /\ stock'[i].id = stock[i].id
           /\ stock'[i].productId = stock[i].productId
           /\ stock'[i].warehouseId = stock[i].warehouseId
      /\ \/ result'.op # "performStockTransfer"
         \/ stock' = stock
         \/ \A r \in TransferRequests :
              (/\ \E logSaved \in BOOLEAN :
                    performStockTransfer(r[1], r[2], r[3], r[4], logSaved)
               /\ ~HasLine(stock, Number(r[1]).val, Number(r[3]).val)) =>
                /\ Len(stock') = Len(stock) + 1
                /\ IsLine(stock'[Len(stock')], Number(r[1]).val, Number(r[3]).val)
                /\ stock'[Len(stock')].quantity = Number(r[4]).val ]_vars

\* C21 witness: a transfer of everything the source line held created the
\* destination line; the source line is still there and holds 0
LazyLinesNeverDeletedWitness ==
  /\ result.op = "performStockTransfer" /\ result.ok
  /\ Len(applied) = 1
  /\ Len(stock) = Len(stock0) + 1
  /\ stock[Len(stock)].quantity = applied[1].quantity
  /\ \E i \in 1..Len(stock0) :
       /\ IsLine(stock[i], applied[1].productId, applied[1].fromWarehouseId)
       /\ stock0[i].quantity > 0
       /\ stock[i].quantity = 0

\* C22 Transfer ids: the log, empty at start, numbers its records 1, 2, ...
\* from oldest to newest (each record has the number the log's length gave it
\* when it was put in front), so the numbers strictly increase and the ids of
\* the log are pairwise distinct.
TransferIds ==
  /\ \A i \in 1..Len(transfers) : transfers[i].id[2] = Len(transfers) - i + 1
  /\ \A i, j \in 1..Len(transfers) : i < j => transfers[i].id[2] > transfers[j].id[2]
  /\ \A i, j \in 1..Len(transfers) : transfers[i].id = transfers[j].id => i = j

\* C22 witness: two records logged on one day, for two products: they are
\* numbered 2 and 1 from the one log
TransferIdsWitness ==
  /\ Len(transfers) = 2
  /\ transfers[1].id = <<0, 2>>
  /\ transfers[2].id = <<0, 1>>
  /\ transfers[1].productId # transfers[2].productId

(* ---------- Properties of the alerts system ---------- *)

\* the category generateAlerts computes for product p from the ledger
CategoryOf(p) == categorizeStock(SumQuantity(stock, p.id), p.reorderPoint)

\* the indices of the alerts of product pid that are not RESOLVED
Unresolved(pid) ==
  {i \in 1..Len(alerts) : alerts[i].productId = pid /\ alerts[i].workflowStatus # "RESOLVED"}

\* C7 At most one unresolved alert per product, in every state reached by
\* generateAlerts, updateAlertStatus and performStockTransfer calls from an
\* alert collection with at most one alert per product.
AtMostOneUnresolved ==
  \A k \in 1..Len(products) : Cardinality(Unresolved(products[k].id)) <= 1

\* C7 witness: a pass has run over a product whose alert was open already
\* (acknowledged at an earlier instant) and it still is the only alert
AtMostOneUnresolvedWitness ==
  /\ result.op = "generateAlerts"
  /\ Len(alerts) = 1
  /\ alerts[1].workflowStatus = "ACKNOWLEDGED"
  /\ alerts[1].createdAt = 0 /\ alerts[1].updatedAt = 1
  /\ CategoryOf(products[1]) = "low"
  /\ Len(applied) = 1

\* C8 New alert after resolution: after a generateAlerts pass every product of
\* the catalog whose category is critical or low has an alert that is not
\* RESOLVED (the pass created one with status NEW if the product had no alert
\* or only RESOLVED ones).
OpenAlertAfterPass ==
  result.op = "generateAlerts" =>
    \A k \in 1..Len(products) :
      CategoryOf(products[k]) \in {"critical", "low"} => Unresolved(products[k].id) # {}

\* C9 No re-opening: a generateAlerts pass leaves every alert that was
\* RESOLVED before it in the array with every field as it was.
NoReopening ==
  [][ result'.op = "generateAlerts" =>
        \A i \in 1..Len(alerts) :
          alerts[i].workflowStatus = "RESOLVED" =>
            /\ Len(alerts') >= Len(alerts)
            /\ alerts'[i + Len(alerts') - Len(alerts)] = alerts[i] ]_vars

\* C9 witness: a pass has left alone an alert resolved at an earlier instant
\* of a product that is critical or low
NoReopeningWitness ==
  /\ result.op = "generateAlerts"
  /\ clock = 1
  /\ \E i \in 1..Len(alerts), k \in 1..Len(products) :
       /\ alerts[i].productId = products[k].id
       /\ alerts[i].workflowStatus = "RESOLVED"
       /\ alerts[i].updatedAt = 0
       /\ CategoryOf(products[k]) \in {"critical", "low"}

\* C10 Auto-resolve: after a generateAlerts pass every alert of a product of
\* the catalog whose category is adequate or overstocked (a product without
\* reorder point included) is RESOLVED.
AutoResolve ==
  result.op = "generateAlerts" =>
    \A k \in 1..Len(products), i \in 1..Len(alerts) :
      (/\ CategoryOf(products[k]) \in {"adequate", "overstocked"}
       /\ alerts[i].productId = products[k].id) =>
        alerts[i].workflowStatus = "RESOLVED"

\* C10 witness: the pass at instant 1 resolved the alert, never commented, of
\* the product without reorder point
AutoResolveWitness ==
  /\ result.op = "generateAlerts"
  /\ \E i \in 1..Len(alerts), k \in 1..Len(products) :
       /\ products[k].reorderPoint <= 0
       /\ alerts[i].productId = products[k].id
       /\ alerts[i].workflowStatus = "RESOLVED"
       /\ alerts[i].updatedAt = 1
       /\ alerts[i].comment = Undefined

\* C11 Idempotent reconciliation: a generateAlerts pass that follows a
\* generateAlerts pass, with only time passing in between (no ledger change,
\* no workflow change), leaves alerts.json exactly as the first pass left it:
\* no new alert and no field changed, updatedAt included.
IdempotentReconciliation ==
  [][ (result.op = "generateAlerts" /\ result'.op = "generateAlerts") =>
        alerts' = alerts ]_vars

\* C12 Unrestricted transitions: for an alert on file, whatever its current
\* status, updateAlertStatus with any status of {NEW, ACKNOWLEDGED, ORDERED,
\* RESOLVED} (backward moves and self-transitions included) returns, and the
\* alert then has the new status.
UnrestrictedTransitions ==
  [][ \/ result'.op # "updateAlertStatus"
      \/ \A id \in AlertIds, s \in valid, c \in RawComments :
           (FindById(alerts, id) # 0 /\ updateAlertStatus(id, s, c)) =>
             /\ result'.ok
             /\ Len(alerts') = Len(alerts)
             /\ alerts'[FindById(alerts, id)].id = id
             /\ alerts'[FindById(alerts, id)].workflowStatus = s ]_vars

\* C12 witness: the alert that was RESOLVED at start has been moved back to
\* NEW by a call that returned it, the other alert never touched
UnrestrictedTransitionsWitness ==
  /\ result.op = "updateAlertStatus" /\ result.ok
  /\ alerts[1].productId = 2
  /\ alerts[1].workflowStatus = "NEW"
  /\ result.ret = <<alerts[1]>>
  /\ alerts[2].workflowStatus = "ORDERED" /\ alerts[2].updatedAt = 0

\* C13 Rejected workflow requests: updateAlertStatus on an alert on file with
\* a status outside {NEW, ACKNOWLEDGED, ORDERED, RESOLVED} throws 'Invalid
\* workflow status'; with an id that matches no alert it throws 'Alert not
\* found' (whatever the status sent); in both cases alerts.json is unchanged.
RejectedUpdate ==
  [][ \/ result'.op # "updateAlertStatus"
      \/ \A id \in AlertIds, s \in RawStatuses, c \in RawComments :
           updateAlertStatus(id, s, c) =>
             /\ (FindById(alerts, id) # 0 /\ s \notin valid) =>
                  /\ result' = Thrown("updateAlertStatus", "Invalid workflow status")
                  /\ alerts' = alerts
             /\ FindById(alerts, id) = 0 =>
                  /\ result' = Thrown("updateAlertStatus", "Alert not found")
                  /\ alerts' = alerts ]_vars

\* C13 witness: after an update at instant 1 went through, a call with status
\* CLOSED was rejected
RejectedUpdateWitness ==
  /\ result = Thrown("updateAlertStatus", "Invalid workflow status")
  /\ \E i \in 1..Len(alerts) : alerts[i].updatedAt = 1 /\ alerts[i].workflowStatus = "ACKNOWLEDGED"

\* C13 second witness: a call naming no alert was rejected
RejectedUpdateNotFoundWitness ==
  /\ result = Thrown("updateAlertStatus", "Alert not found")
  /\ \E i \in 1..Len(alerts) : alerts[i].updatedAt = 1

\* C17 Workflow status untouched: a generateAlerts pass keeps every alert
\* that was on file, and changes the workflowStatus of none except to
\* RESOLVED; an alert of a product that is critical or low keeps its status,
\* and when that status is not RESOLVED its totalStock, category,
\* recommendedQty and note are those computed from the ledger.
StatusUntouched ==
  [][ (result'.op = "generateAlerts" /\ clock' = clock) =>
        LET d == Len(alerts') - Len(alerts) IN
        /\ d >= 0
        /\ \A i \in 1..Len(alerts) :
             /\ alerts'[i + d].id = alerts[i].id
             /\ \/ alerts'[i + d].workflowStatus = alerts[i].workflowStatus
                \/ alerts'[i + d].workflowStatus = "RESOLVED"
             /\ \A k \in 1..Len(products) :
                  (/\ products[k].id = alerts[i].productId
                   /\ CategoryOf(products[k]) \in {"critical", "low"}) =>
                    LET total == SumQuantity(stock, products[k].id)
                        rec == recommendReorder(total, products[k].reorderPoint)
                    IN
                    /\ alerts'[i + d].workflowStatus = alerts[i].workflowStatus
                    /\ alerts[i].workflowStatus # "RESOLVED" =>
                         /\ alerts'[i + d].totalStock = total
                         /\ alerts'[i + d].category = CategoryOf(products[k])
                         /\ alerts'[i + d].recommendedQty = rec.recommendedQty
                         /\ alerts'[i + d].note = rec.note ]_vars

\* C17 witness: the pass refreshed the alert that was ORDERED when the product
\* had no stock: it now shows total 2 and category low and still is ORDERED
StatusUntouchedWitness ==
  /\ result.op = "generateAlerts"
  /\ \E i \in 1..Len(alerts) :
       /\ alerts[i].workflowStatus = "ORDERED"
       /\ alerts[i].comment = "awaiting quote"
       /\ alerts[i].totalStock = 2
       /\ alerts[i].category = "low"
       /\ alerts[i].note = <<"Raise to RP", 3>>

\* C18 Frame of a workflow update: a call of updateAlertStatus that returns
\* leaves every other alert as it was and, in the alert it names, changes
\* nothing but workflowStatus (the status sent), updatedAt (the instant of the
\* call) and comment: the comment sent when it is non-empty, the alert's prior
\* comment when none or an empty one is sent.
UpdateFrame ==
  [][ \/ result'.op # "updateAlertStatus"
      \/ ~result'.ok
      \/ \A id \in AlertIds, s \in RawStatuses, c \in RawComments :
           updateAlertStatus(id, s, c) =>
             LET i == FindById(alerts, id) IN
             /\ i # 0
             /\ Len(alerts') = Len(alerts)
             /\ \A j \in 1..Len(alerts) : j # i => alerts'[j] = alerts[j]
             /\ alerts'[i] = [alerts[i] EXCEPT !.workflowStatus = s,
                                               !.updatedAt = clock,
                                               !.comment = alerts'[i].comment]
             /\ alerts'[i].comment =
                  (IF c = Undefined \/ c = "" THEN alerts[i].comment ELSE c) ]_vars

\* C18 witness: the alert that was ORDERED with a comment at start was moved
\* at instant 1 by a call without comment and kept its comment; the other
\* alert is as it was
UpdateFrameWitness ==
  /\ result.op = "updateAlertStatus" /\ result.ok
  /\ alerts[2].comment = "awaiting quote"
  /\ alerts[2].workflowStatus = "ACKNOWLEDGED"
  /\ alerts[2].updatedAt = 1
  /\ result.ret = <<alerts[2]>>
  /\ alerts[1] = EarlierAlert(2, "RESOLVED")

LedgerConsistent ==
  \A k \in 1..Len(products) :
    \A i \in Unresolved(products[k].id) :
      LET total == SumQuantity(stock, products[k].id)
          rec == recommendReorder(total, products[k].reorderPoint)
      IN
      /\ alerts[i].totalStock = total
      /\ alerts[i].category = categorizeStock(total, products[k].reorderPoint)
      /\ alerts[i].recommendedQty = rec.recommendedQty

\* C29 Consistency with the ledger: after a generateAlerts pass every
\* unresolved alert of a product of the catalog has totalStock equal to the
\* sum of the product's stock lines, category equal to categorizeStock of that
\* total and recommendedQty equal to recommendReorder's; a performStockTransfer
\* call made while this holds leaves it true.
ConsistentWithLedger ==
  [][ /\ result'.op = "generateAlerts" => LedgerConsistent'
      /\ (result'.op = "performStockTransfer" /\ LedgerConsistent) => LedgerConsistent' ]_vars

\* C29 witness: the pass at instant 1 refreshed the commented alert from total
\* 0 to total 2, then two transfers went through and the alert still matches
ConsistentWithLedgerWitness ==
  /\ result.op = "performStockTransfer" /\ result.ok
  /\ Len(applied) = 2
  /\ stock # stock0
  /\ LedgerConsistent
  /\ \E i \in 1..Len(alerts) :
       /\ alerts[i].comment = "awaiting quote"
       /\ alerts[i].workflowStatus = "ORDERED"
       /\ alerts[i].updatedAt = 1
       /\ alerts[i].totalStock = 2

\* C30 Component frames: a performStockTransfer call that returns leaves the
\* alerts and every stock line other than the source line and the destination
\* line of the product moved as they were (the destination line may be new,
\* at the end); generateAlerts and updateAlertStatus leave the ledger and the
\* transfer log as they were.
ComponentFrames ==
  [][ /\ (result'.op = "performStockTransfer" /\ result'.ok /\ applied' # applied) =>
           LET m == applied'[1] IN
           /\ alerts' = alerts
           /\ Len(stock') \in {Len(stock), Len(stock) + 1}
           /\ \A i \in 1..Len(stock) :
                \/ stock'[i] = stock[i]
                \/ /\ stock[i].productId = m.productId
                   /\ stock[i].warehouseId \in {m.fromWarehouseId, m.toWarehouseId}
           /\ Len(stock') = Len(stock) + 1 =>
                /\ FindLine(stock, m.productId, m.toWarehouseId) = 0
                /\ IsLine(stock'[Len(stock')], m.productId, m.toWarehouseId)
      /\ result'.op \in {"generateAlerts", "updateAlertStatus"} =>
           /\ stock' = stock
           /\ transfers' = transfers ]_vars

\* C30 witness: with an alert on file, a transfer of one product returned and
\* the line of the other product, first in the ledger, is as it was at start
ComponentFramesWitness ==
  /\ result.op = "performStockTransfer" /\ result.ok
  /\ Len(applied) = 1
  /\ Len(alerts) >= 1
  /\ stock # stock0
  /\ stock[1] = stock0[1]
  /\ stock[1].productId # applied[1].productId
  /\ stock[1].warehouseId = applied[1].fromWarehouseId

\* C30 second witness: after a transfer, a pass created an alert and a
\* workflow update went through; the ledger and the log are as the transfer
\* left them
ComponentFramesAlertsWitness ==
  /\ result.op = "updateAlertStatus" /\ result.ok
  /\ Len(applied) = 1 /\ Len(transfers) = 1
  /\ stock # stock0
  /\ Len(alerts) >= 1

(* ---------- Properties of categorizeStock and recommendReorder ---------- *)

\* C14 Categories: categorizeStock(total, reorderPoint) returns adequate when
\* reorderPoint <= 0; otherwise critical when 2*total < reorderPoint, low when
\* reorderPoint/2 <= total < reorderPoint, adequate when reorderPoint <= total
\* < 2*reorderPoint, overstocked when total >= 2*reorderPoint.
CategorizeContract ==
  result.op = "categorizeStock" =>
    LET total == args[1]
        rp == args[2]
        category == result.ret
    IN
    /\ rp <= 0 => category = "adequate"
    /\ (rp > 0 /\ 2 * total < rp) => category = "critical"
    /\ (rp > 0 /\ rp <= 2 * total /\ total < rp) => category = "low"
    /\ (rp > 0 /\ rp <= total /\ total < 2 * rp) => category = "adequate"
    /\ (rp > 0 /\ total >= 2 * rp) => category = "overstocked"

\* C14 witness: the boundary total = reorderPoint / 2 is low, not critical
CategorizeContractWitness ==
  /\ result = Returned("categorizeStock", "low")
  /\ args[2] > 0
  /\ 2 * args[1] = args[2]

\* the least integer that is at least 1.5 * rp
CeilOfOneAndHalf(rp) ==
  CHOOSE n \in 0..(2 * rp) : 2 * n >= 3 * rp /\ 2 * (n - 1) < 3 * rp

\* C15 Recommended quantity: recommendReorder(total, reorderPoint) returns
\* recommendedQty 0 when reorderPoint <= 0 or the total is adequate or
\* overstocked (total >= reorderPoint), max(0, ceil(1.5*reorderPoint) - total)
\* when critical (2*total < reorderPoint), and max(0, reorderPoint - total)
\* when low.
RecommendContract ==
  result.op = "recommendReorder" =>
    LET total == args[1]
        rp == args[2]
        qty == result.ret.recommendedQty
    IN
    /\ (rp <= 0 \/ total >= rp) => qty = 0
    /\ (rp > 0 /\ 2 * total < rp) =>
         qty = (IF CeilOfOneAndHalf(rp) - total > 0 THEN CeilOfOneAndHalf(rp) - total ELSE 0)
    /\ (rp > 0 /\ rp <= 2 * total /\ total < rp) =>
         qty = (IF rp - total > 0 THEN rp - total ELSE 0)

\* C15 witness: total 40 with reorder point 100 gives target 150 and quantity 110
RecommendContractWitness ==
  /\ result.op = "recommendReorder"
  /\ args = <<40, 100>>
  /\ result.ret.recommendedQty = 110
  /\ result.ret.note = <<"Raise to ~1.5x RP", 150>>

\* severity of a category: critical > low > adequate > overstocked
Severity(category) ==
  CASE category = "critical" -> 3
    [] category = "low" -> 2
    [] category = "adequate" -> 1
    [] category = "overstocked" -> 0

\* C19 Monotonic categorization: for a reorder point > 0, every total t1 not
\* above the total t2 just categorized has a category at least as severe as
\* that of t2.
MonotonicCategorization ==
  (result.op = "categorizeStock" /\ args[2] > 0) =>
    \A t1 \in 0..args[1] :
      Severity(categorizeStock(t1, args[2])) >= Severity(result.ret)

\* C19 witness: an overstocked total above totals of all four categories
MonotonicCategorizationWitness ==
  /\ result = Returned("categorizeStock", "overstocked")
  /\ args = <<250, 100>>
  /\ {categorizeStock(t1, args[2]) : t1 \in {40, 60, 150, 250}}
       = {"critical", "low", "adequate", "overstocked"}

(* ---------- Properties of the validation of a transfer request ---------- *)

\* the checks of the claim that the request held in args fails: 1 identifiers
\* are finite numbers, 2 warehouses differ, 3 quantity is a finite positive
\* number, 4 product exists, 5 source warehouse exists, 6 destination
\* warehouse exists
FailedChecks ==
  LET p == Number(args[1])
      f == Number(args[2])
      t == Number(args[3])
      q == Number(args[4])
  IN
  {k \in 1..6 :
     \/ k = 1 /\ (~p.finite \/ ~f.finite \/ ~t.finite)
     \/ k = 2 /\ f.finite /\ t.finite /\ f.val = t.val
     \/ k = 3 /\ (~q.finite \/ q.val <= 0)
     \/ k = 4 /\ ~(p.finite /\ \E i \in 1..Len(products) : products[i].id = p.val)
     \/ k = 5 /\ ~(f.finite /\ \E i \in 1..Len(warehouses) : warehouses[i].id = f.val)
     \/ k = 6 /\ ~(t.finite /\ \E i \in 1..Len(warehouses) : warehouses[i].id = t.val)}

\* the messages that report check k
CheckErrors(k) ==
  CASE k = 1 -> {"Invalid productId", "Invalid warehouseId"}
    [] k = 2 -> {"Source and destination warehouses must differ"}
    [] k = 3 -> {"Quantity must be a positive number"}
    [] k = 4 -> {"Product not found"}
    [] k = 5 -> {"Source warehouse not found"}
    [] k = 6 -> {"Destination warehouse not found"}

\* C16 Validation order: a transfer call whose request fails one or more of
\* the six request checks throws the error of the earliest failing one, in
\* the order identifiers, warehouses differ, quantity, product, source
\* warehouse, destination warehouse; a request that fails none gets none of
\* these errors.
ValidationOrder ==
  result.op = "performStockTransfer" =>
    IF FailedChecks # {}
      THEN LET first == CHOOSE k \in FailedChecks : \A j \in FailedChecks : k <= j
           IN ~result.ok /\ result.error \in CheckErrors(first)
      ELSE \A k \in 1..6 : result.error \notin CheckErrors(k)

\* C16 witness: equal warehouses with a product not on file is reported as
\* 'must differ', not as 'Product not found'
ValidationOrderWitness ==
  /\ args = << <<"9">>, <<"1">>, <<"1">>, <<"1">> >>
  /\ FailedChecks = {2, 4}
  /\ result = Thrown("performStockTransfer", "Source and destination warehouses must differ")

(* ---------- Properties of transfer calls in flight together ---------- *)

\* both calls have returned
BothReturned == \A c \in Callers : calls[c].pc = "returned"

\* each call read the ledger before the other wrote it: both read the ledger
\* of the start (a write always changes the ledger)
BothReadStart == \A c \in Callers : calls[c].stockRead /\ calls[c].stock = stock0

\* C23 Lost update: whenever two calls that each read the ledger before the
\* other wrote it have both returned, both returned a COMPLETED record, two
\* moves were written, and the persisted ledger is the ledger of the start
\* changed by the move written last only; the other move is in no line of it.
LostUpdate ==
  (BothReturned /\ BothReadStart) =>
    /\ \A c \in Callers : calls[c].ret[1].status = "COMPLETED"
    /\ Len(applied) = 2
    /\ \A pid \in ProductIds, wid \in {1, 2} :
         Available(stock, pid, wid)
           = Available(stock0, pid, wid) + NetMoved(<<applied[1]>>, pid, wid)
    /\ \E pid \in ProductIds, wid \in {1, 2} :
         Available(stock, pid, wid)
           # Available(stock0, pid, wid) + NetMoved(applied, pid, wid)

\* C23 witness: two calls moved one unit of product 1 each from warehouse 1 to
\* warehouse 2, both returned, and warehouse 1 has lost one unit, not two
LostUpdateWitness ==
  /\ BothReturned /\ BothReadStart
  /\ stock0 = LedgerLow
  /\ \A c \in Callers : calls[c].request = << <<"1">>, <<"1">>, <<"2">>, <<"1">> >>
  /\ Available(stock, 1, 1) = 1
  /\ Available(stock, 1, 2) = 1

\* the log holds record x
Logged(log, x) == \E j \in 1..Len(log) : log[j] = x

\* C24 Append-only log under interleaving: every step keeps every record of
\* the persisted log in the log; and once both calls are over, the record of
\* every call that returned is in the log and the ledger is the ledger of the
\* start changed by the moves of the logged records.
AppendOnlyUnderRace ==
  [][ /\ \A i \in 1..Len(transfers) : Logged(transfers', transfers[i])
      /\ (\A c \in Callers : calls'[c].pc \in {"returned", "thrown"}) =>
           /\ \A c \in Callers :
                calls'[c].pc = "returned" => Logged(transfers', calls'[c].ret[1])
           /\ \A pid \in ProductIds, wid \in {1, 2} :
                Available(stock', pid, wid)
                  = Available(stock0, pid, wid)
                    + NetMoved([i \in 1..Len(transfers') |-> MoveOf(transfers'[i])], pid, wid) ]_vars

\* C26 Conservation survives races: every ledger persisted while two calls
\* interleave has, for every product, the total of the ledger of the start,
\* and no negative quantity.
RaceConservation ==
  /\ \A pid \in ProductIds : SumQuantity(stock, pid) = SumQuantity(stock0, pid)
  /\ \A i \in 1..Len(stock) : stock[i].quantity >= 0

\* C26 witness: both calls returned after reading the ledger of the start, one
\* for product 1 and one for product 2; the ledger has only the later move
RaceConservationWitness ==
  /\ BothReturned /\ BothReadStart
  /\ calls["A"].request[1] # calls["B"].request[1]
  /\ Len(applied) = 2
  /\ \E pid \in ProductIds, wid \in {1, 2} :
       Available(stock, pid, wid) # Available(stock0, pid, wid) + NetMoved(applied, pid, wid)

(* ---------- Properties of a pass and an update in flight together ---------- *)

\* C27 Status not reverted: when updateAlertStatus has returned and a
\* generateAlerts pass that read the alerts before the status write has saved
\* after it, the alert's persisted workflowStatus is the status the call wrote
\* or RESOLVED, never the older one.
StatusNotReverted ==
  (/\ calls["update"].pc = "returned"
   /\ calls["pass"].pc = "returned"
   /\ result.op = "generateAlerts"
   /\ calls["pass"].alerts = calls["update"].alerts) =>
    \A i \in 1..Len(alerts) :
      alerts[i].id = calls["update"].request[1] =>
        alerts[i].workflowStatus \in {calls["update"].request[2], "RESOLVED"}

(* ---------- Properties of the alerts page ---------- *)

\* the place of a status in the lifecycle NEW -> ACKNOWLEDGED -> ORDERED -> RESOLVED
Rank(status) ==
  CASE status = "NEW" -> 0
    [] status = "ACKNOWLEDGED" -> 1
    [] status = "ORDERED" -> 2
    [] status = "RESOLVED" -> 3

\* C25 Forward-only lifecycle: under page loads and clicks on enabled buttons
\* of two pages, no step moves the persisted workflowStatus of an alert
\* backward in the order NEW -> ACKNOWLEDGED -> ORDERED -> RESOLVED.
ForwardOnly ==
  [][ \A i \in 1..Len(alerts) :
        LET j == i + Len(alerts') - Len(alerts) IN
        /\ j >= 1
        /\ alerts'[j].id = alerts[i].id
        /\ Rank(alerts'[j].workflowStatus) >= Rank(alerts[i].workflowStatus) ]_vars

====
